---- MODULE Spec2Model ----
(***************************************************************************)
(* pyramid_redis_sessions: the session factory, the RedisSession object    *)
(* with its persist / refresh wrappers, the id allocator and the cookie    *)
(* signer, over a Redis store with expiring keys.                          *)
(*                                                                         *)
(* Every request is one process.  One step of a process holds at most one  *)
(* store command, so steps of different requests and the passing of time   *)
(* (Tick) interleave between any two store commands of a request.          *)
(***************************************************************************)
EXTENDS Integers, Sequences, FiniteSets, TLC

(* ------------------------------ bounds --------------------------------- *)

\* The largest value of the configured `timeout`, in clock ticks.
MaxTimeout == 2

\* The longest flash queue.
MaxFlash == 2

\* The most response callbacks a request registers.
MaxCallbacks == 2

(* ------------------------- program constants --------------------------- *)

\* Width of the base32 HMAC-SHA1 signature that prefixes a cookie value.
SigLen == 32

\* Width of a CSRF token: base64 of 20 random bytes.
TokenLen == 28

(* ----------------------------- universes ------------------------------- *)

Requests == {"r1", "r2"}

\* Python's None, where a cookie value or a session id is expected.
None == <<"None">>

\* Outcomes of base64.b32encode(Random.new().read(20)): the session ids.
Ids == {<<"a">>, <<"b">>}

Secret == "s3cr3t"
WrongSecret == "wrong"

\* The keys of managed_dict: one application key, the indefinite marker,
\* the key of the flash queue '' and the key of the CSRF token.
UserKeys == {"k"}
PKeys == UserKeys \cup {"on", "_f_", "csrf"}

\* The messages given to flash, and the CSRF tokens that may be drawn.
Messages == {"m", "n"}
Tokens == {"t1", "t2"}

\* The lists of messages, by their repr, and the list a repr stands for.
AllFlash ==
    {"[]", "['m']", "['n']", "['m', 'm']",
     "['m', 'n']", "['n', 'm']", "['n', 'n']", "['m', 'm', 'm']",
     "['m', 'm', 'n']", "['m', 'n', 'm']", "['m', 'n', 'n']", "['n', 'm', 'm']",
     "['n', 'm', 'n']", "['n', 'n', 'm']", "['n', 'n', 'n']"}

FlashSeq(v) ==
    CASE v = "[]" -> <<>>
      [] v = "['m']" -> <<"m">>
      [] v = "['n']" -> <<"n">>
      [] v = "['m', 'm']" -> <<"m", "m">>
      [] v = "['m', 'n']" -> <<"m", "n">>
      [] v = "['n', 'm']" -> <<"n", "m">>
      [] v = "['n', 'n']" -> <<"n", "n">>
      [] v = "['m', 'm', 'm']" -> <<"m", "m", "m">>
      [] v = "['m', 'm', 'n']" -> <<"m", "m", "n">>
      [] v = "['m', 'n', 'm']" -> <<"m", "n", "m">>
      [] v = "['m', 'n', 'n']" -> <<"m", "n", "n">>
      [] v = "['n', 'm', 'm']" -> <<"n", "m", "m">>
      [] v = "['n', 'm', 'n']" -> <<"n", "m", "n">>
      [] v = "['n', 'n', 'm']" -> <<"n", "n", "m">>
      [] v = "['n', 'n', 'n']" -> <<"n", "n", "n">>

FlashRepr(list) == CHOOSE v \in AllFlash : FlashSeq(v) = list

FlashLists == {v \in AllFlash : Len(FlashSeq(v)) <= MaxFlash}

\* Python values held by managed_dict, by their repr; Missing: no such key.
UserValues == {"1", "2"}
Values == UserValues \cup {"True"} \cup FlashLists \cup Tokens
Missing == "<missing>"

Dicts == [PKeys -> Values \cup {Missing}]
EmptyDict == [k \in PKeys |-> Missing]

(* ------------------------- Python slices ------------------------------- *)

\* s[:n]
Take(s, n) == SubSeq(s, 1, IF Len(s) < n THEN Len(s) ELSE n)

\* s[n:]
Drop(s, n) == IF Len(s) <= n THEN <<>> ELSE SubSeq(s, n + 1, Len(s))

(* ------------------------- codec (msgpack) ----------------------------- *)

\* The bytes of a key (ASCII).
KeyBytes(k) ==
    CASE k = "k" -> <<107>>
      [] k = "on" -> <<111, 110>>
      [] k = "_f_" -> <<95, 102, 95>>
      [] k = "csrf" -> <<99, 115, 114, 102>>

\* msgpack of a str: fixraw header 0xa0 + length, then the bytes.
PackKey(k) == <<160 + Len(KeyBytes(k))>> \o KeyBytes(k)

\* The bytes of a message and of a token (ASCII).
MsgByte(msg) == IF msg = "m" THEN 109 ELSE 110
TokenBytes(t) == [i \in 1..TokenLen |-> IF t = "t1" THEN 65 ELSE 66]

\* msgpack of the items of a list of messages, from the i-th on.
RECURSIVE PackList(_, _)
PackList(list, i) ==
    IF i > Len(list) THEN <<>>
    ELSE <<161, MsgByte(list[i])>> \o PackList(list, i + 1)

\* msgpack of a value: positive fixint, 0xc3 for True, fixraw for a token,
\* fixarray header 0x90 + length and the items for a list.
PackValue(v) ==
    IF v = "1" THEN <<1>>
    ELSE IF v = "2" THEN <<2>>
    ELSE IF v = "True" THEN <<195>>
    ELSE IF v \in Tokens THEN <<160 + TokenLen>> \o TokenBytes(v)
    ELSE <<144 + Len(FlashSeq(v))>> \o PackList(FlashSeq(v), 1)

\* The order in which the packer walks the dict's items.
KeyOrder == <<"k", "on", "_f_", "csrf">>

RECURSIVE PackItems(_, _)
PackItems(d, i) ==
    IF i > Len(KeyOrder) THEN <<>>
    ELSE (IF d[KeyOrder[i]] = Missing THEN <<>>
          ELSE PackKey(KeyOrder[i]) \o PackValue(d[KeyOrder[i]]))
         \o PackItems(d, i + 1)

DictLen(d) == Cardinality({k \in PKeys : d[k] # Missing})

\* _packer.pack(obj) for a dict: fixmap header 0x80 + size, then the items.
serialize(obj) == <<128 + DictLen(obj)>> \o PackItems(obj, 1)

\* An empty string in place of the packed empty dict.
_empty_session_Blank == <<>>

_empty_session == serialize(EmptyDict)

UnpackFail(status, buf) == [status |-> status, obj |-> EmptyDict, rest |-> buf]

\* One key off the front of buf.
UnpackKey(buf) ==
    IF Len(buf) = 0 THEN [status |-> "OutOfData", key |-> Missing, rest |-> buf]
    ELSE IF buf[1] < 160 \/ buf[1] > 191
         THEN [status |-> "error", key |-> Missing, rest |-> buf]
    ELSE IF Len(buf) < 1 + (buf[1] - 160)
         THEN [status |-> "OutOfData", key |-> Missing, rest |-> buf]
    ELSE LET raw == SubSeq(buf, 2, 1 + (buf[1] - 160))
             hit == {k \in PKeys : KeyBytes(k) = raw}
         IN  IF hit = {} THEN [status |-> "error", key |-> Missing, rest |-> buf]
             ELSE [status |-> "ok", key |-> CHOOSE k \in hit : TRUE,
                   rest |-> Drop(buf, 1 + (buf[1] - 160))]

\* n messages off the front of buf, added to the list.
RECURSIVE UnpackList(_, _, _)
UnpackList(buf, n, list) ==
    IF n = 0
    THEN (IF list \in {FlashSeq(v) : v \in AllFlash}
          THEN [status |-> "ok", value |-> FlashRepr(list), rest |-> buf]
          ELSE [status |-> "error", value |-> Missing, rest |-> buf])
    ELSE IF Len(buf) < 2 THEN [status |-> "OutOfData", value |-> Missing, rest |-> buf]
    ELSE IF buf[1] # 161 \/ buf[2] \notin {MsgByte(msg) : msg \in Messages}
         THEN [status |-> "error", value |-> Missing, rest |-> buf]
    ELSE UnpackList(Drop(buf, 2), n - 1,
                    Append(list, CHOOSE msg \in Messages : MsgByte(msg) = buf[2]))

\* A token off the front of buf.
UnpackToken(buf) ==
    IF Len(buf) < 1 + TokenLen THEN [status |-> "OutOfData", value |-> Missing, rest |-> buf]
    ELSE LET hit == {t \in Tokens :
                        \A i \in 1..TokenLen : buf[1 + i] = TokenBytes(t)[i]}
         IN  IF hit = {} THEN [status |-> "error", value |-> Missing, rest |-> buf]
             ELSE [status |-> "ok", value |-> CHOOSE t \in hit : TRUE,
                   rest |-> Drop(buf, 1 + TokenLen)]

\* One value off the front of buf.
UnpackValue(buf) ==
    IF Len(buf) = 0 THEN [status |-> "OutOfData", value |-> Missing, rest |-> buf]
    ELSE IF buf[1] = 1 THEN [status |-> "ok", value |-> "1", rest |-> Drop(buf, 1)]
    ELSE IF buf[1] = 2 THEN [status |-> "ok", value |-> "2", rest |-> Drop(buf, 1)]
    ELSE IF buf[1] = 195 THEN [status |-> "ok", value |-> "True", rest |-> Drop(buf, 1)]
    ELSE IF buf[1] = 160 + TokenLen THEN UnpackToken(buf)
    ELSE IF buf[1] >= 144 /\ buf[1] <= 159
         THEN LET got == UnpackList(Drop(buf, 1), buf[1] - 144, <<>>)
              IN  IF got.status = "ok" THEN got ELSE [got EXCEPT !.rest = buf]
    ELSE [status |-> "error", value |-> Missing, rest |-> buf]

\* n key/value pairs off the front of buf, added to the dict d.
RECURSIVE UnpackItems(_, _, _)
UnpackItems(buf, n, d) ==
    IF n = 0 THEN [status |-> "ok", obj |-> d, rest |-> buf]
    ELSE LET key == UnpackKey(buf)
             val == UnpackValue(key.rest)
         IN  IF key.status # "ok" THEN UnpackFail(key.status, buf)
             ELSE IF val.status # "ok" THEN UnpackFail(val.status, buf)
             ELSE UnpackItems(val.rest, n - 1, [d EXCEPT ![key.key] = val.value])

\* _unpacker.unpack(): the first object of the buffer and the bytes after
\* it; the buffer is kept whole while the object is incomplete.
Unpack(buf) ==
    IF Len(buf) = 0 THEN UnpackFail("OutOfData", buf)
    ELSE IF buf[1] < 128 \/ buf[1] > 143 THEN UnpackFail("error", buf)
    ELSE LET got == UnpackItems(Drop(buf, 1), buf[1] - 128, EmptyDict)
         IN  IF got.status = "ok" THEN got ELSE UnpackFail(got.status, buf)

\* deserialize(str) on the module's one unpacker whose buffer holds buf:
\* feed, then unpack.
deserialize(buf, str) == Unpack(buf \o str)

(* ------------------------------ signer --------------------------------- *)

\* hmac.new(secret, session_id, sha1).digest(), taken as collision-free:
\* one symbol for each (secret, id).
Digest(secret, session_id) ==
    IF secret = Secret
    THEN (IF session_id = <<>> THEN "E" ELSE
          IF session_id = <<"a">> THEN "A" ELSE
          IF session_id = <<"b">> THEN "B" ELSE "X")
    ELSE (IF session_id = <<>> THEN "e" ELSE
          IF session_id = <<"a">> THEN "a'" ELSE
          IF session_id = <<"b">> THEN "b'" ELSE "x")

\* base64.b32encode of a 20 byte digest: 32 characters.
B32Digest(secret, session_id) == [i \in 1..SigLen |-> Digest(secret, session_id)]

sign_session_id(session_id, secret) == B32Digest(secret, session_id) \o session_id

\* pyramid.util.strings_differ
strings_differ(s1, s2) ==
    IF Len(s1) # Len(s2) THEN TRUE ELSE \E i \in 1..Len(s1) : s1[i] # s2[i]

\* An unsign_session_id that returns the cookie, not the id in it.
unsign_session_id_Whole(cookie, secret) ==
    IF strings_differ(B32Digest(secret, Drop(cookie, SigLen)), Take(cookie, SigLen))
    THEN [raised |-> TRUE, session_id |-> None]
    ELSE [raised |-> FALSE, session_id |-> cookie]

\* An unsign_session_id that takes the id without looking at the signature.
unsign_session_id_NoCheck(cookie, secret) ==
    [raised |-> FALSE, session_id |-> Drop(cookie, SigLen)]

\* unsign_session_id: the id, or the ValueError.
unsign_session_id(cookie, secret) ==
    LET input_sig == Take(cookie, SigLen)
        session_id == Drop(cookie, SigLen)
    IN  IF strings_differ(B32Digest(secret, session_id), input_sig)
        THEN [raised |-> TRUE, session_id |-> None]
        ELSE [raised |-> FALSE, session_id |-> session_id]

\* The cookie values a request may carry.
Cookies ==
    {None}
    \cup {sign_session_id(id, Secret) : id \in Ids \cup {<<>>}}
    \cup {sign_session_id(<<"a">>, WrongSecret)}
    \cup {B32Digest(Secret, <<"a">>) \o <<"b">>}
    \cup {Take(sign_session_id(<<"a">>, Secret), 3)}

(* ------------------------------ store ---------------------------------- *)

\* ttl as the TTL command gives it: -2 no such key, -1 no expiration.
NoKey == [present |-> FALSE, val |-> <<>>, ttl |-> -2]
NoExpiration == -1

\* The reply to GET of a key that does not exist (None in redis-py): no
\* byte string.
Nil == <<-1>>

RedisGet(db, key) == IF db[key].present THEN db[key].val ELSE Nil

RedisExists(db, key) == key \in DOMAIN db /\ db[key].present

RedisSet(db, key, value) ==
    [db EXCEPT ![key] = [present |-> TRUE, val |-> value, ttl |-> NoExpiration]]

RedisSetex(db, key, time, value) ==
    [db EXCEPT ![key] = [present |-> TRUE, val |-> value, ttl |-> time]]

RedisSetnx(db, key, value) ==
    IF db[key].present THEN db ELSE RedisSet(db, key, value)

\* EXPIRE of a missing key does nothing; a time that is not positive
\* removes the key.
RedisExpire(db, key, time) ==
    IF ~db[key].present THEN db
    ELSE IF time <= 0 THEN [db EXCEPT ![key] = NoKey]
    ELSE [db EXCEPT ![key].ttl = time]

\* One tick of the store's clock.
RedisTick(db) ==
    [key \in DOMAIN db |->
        IF db[key].ttl = 1 THEN NoKey
        ELSE IF db[key].ttl > 1 THEN [db[key] EXCEPT !.ttl = @ - 1]
        ELSE db[key]]

(* ------------------------------ state ---------------------------------- *)

VARIABLES
    timeout,              \* RedisSessionFactory(timeout=...)
    cookie_on_exception,  \* RedisSessionFactory(cookie_on_exception=...)
    redis,                \* the store: key -> [present, val, ttl]
    unpacker,             \* the buffer of util._unpacker
    pc,                   \* where each request is
    cookieval,            \* request.cookies.get(cookie_name)
    exception,            \* request.exception is not None
    session_id,           \* factory's local session_id
    new_id,               \* factory's local new_id
    session,              \* the request's RedisSession
    callbacks,            \* request.add_response_callback(...), in order
    response,             \* what the callbacks did to the response
    last                  \* the step just taken: operation, request, store command

vars == <<timeout, cookie_on_exception, redis, unpacker, pc, cookieval, exception,
          session_id, new_id, session, callbacks, response, last>>

NoSession ==
    [session_id |-> None, managed_dict |-> EmptyDict, default_timeout |-> 0,
     timeout |-> 0, new |-> FALSE]

Init ==
    /\ timeout \in {0, MaxTimeout}
    /\ cookie_on_exception \in BOOLEAN
    /\ redis = [key \in Ids |-> NoKey]
    /\ unpacker = <<>>
    /\ pc = [r \in Requests |-> "idle"]
    /\ cookieval = [r \in Requests |-> None]
    /\ exception = [r \in Requests |-> FALSE]
    /\ session_id = [r \in Requests |-> None]
    /\ new_id = [r \in Requests |-> None]
    /\ session = [r \in Requests |-> NoSession]
    /\ callbacks = [r \in Requests |-> <<>>]
    /\ response = [r \in Requests |-> <<>>]
    /\ last = [op |-> "init", r |-> "none", cmd |-> "none", raised |-> FALSE,
               result |-> "None"]

\* The record of a step: the operation, the request, the one store command
\* it issued ("none": none), whether it raised, and what it returned to the
\* application (by its repr).
StepResult(op, r, cmd, raised, result) ==
    last' = [op |-> op, r |-> r, cmd |-> cmd, raised |-> raised, result |-> result]

Step(op, r, cmd, raised) == StepResult(op, r, cmd, raised, "None")

(* ----------------------------- factory --------------------------------- *)

\* factory, lines 142-151: the cookie is read and unsigned, and the store is
\* asked whether the id exists.
Unsigned(c) ==
    IF c = None THEN None
    ELSE IF unsign_session_id(c, Secret).raised THEN None
    ELSE unsign_session_id(c, Secret).session_id

\* `session_id and ...`: None and the empty id are false.
Truthy(id) == id # None /\ id # <<>>

FactoryFound(db, id) == Truthy(id) /\ RedisExists(db, id)

\* request.exception when the factory is called: the factory reads it only
\* with cookie_on_exception off (add_cookie, line 119).
ExceptionAtCall == IF cookie_on_exception THEN {FALSE} ELSE BOOLEAN

Factory(r) ==
    /\ pc[r] = "idle"
    /\ \E c \in Cookies, e \in ExceptionAtCall :
         /\ cookieval' = [cookieval EXCEPT ![r] = c]
         /\ exception' = [exception EXCEPT ![r] = e]
         /\ session_id' = [session_id EXCEPT ![r] = Unsigned(c)]
         /\ pc' = [pc EXCEPT ![r] =
                     IF FactoryFound(redis, Unsigned(c)) THEN "existing"
                     ELSE "new_session_id"]
         /\ Step("factory", r, IF Truthy(Unsigned(c)) THEN "exists" ELSE "none", FALSE)
    /\ UNCHANGED <<timeout, cookie_on_exception, redis, unpacker, new_id, session,
                   callbacks, response>>

\* A reply that always says the key was set.
SetnxReply_True(db, id) == <<TRUE>>

\* A reply that never says so.
SetnxReply_False(db, id) == <<FALSE>>

\* new_session_id: val = redis.setnx(session_id, _empty_session); val[0] is
\* the store's answer, True when the key was set.
SetnxReply(db, id) == <<~db[id].present>>

\* One turn of the loop of new_session_id: an id is drawn and setnx is
\* tried.  When it was set and there is a timeout, expire comes next; when
\* it was set and there is none, the id is returned; else the loop goes on.
NewSessionIdDraw(r, id) ==
    /\ pc[r] = "new_session_id"
    /\ LET val == SetnxReply(redis, id)
       IN  /\ redis' = RedisSetnx(redis, id, _empty_session)
           /\ IF val[1]
              THEN /\ new_id' = [new_id EXCEPT ![r] = id]
                   /\ pc' = [pc EXCEPT ![r] = IF timeout # 0 THEN "expire" ELSE "new"]
              ELSE UNCHANGED <<new_id, pc>>
           /\ Step(IF val[1] /\ timeout = 0 THEN "new_session_id"
                   ELSE IF val[1] THEN "setnx" ELSE "retry", r, "setnx", FALSE)
    /\ UNCHANGED <<timeout, cookie_on_exception, unpacker, cookieval, exception,
                   session_id, session, callbacks, response>>

\* The id is whatever Random gives.
NewSessionIdSetnx(r) == \E id \in Ids : NewSessionIdDraw(r, id)

\* new_session_id, lines 47-49: redis.expire(session_id, timeout), and the
\* id is returned.
NewSessionIdExpire(r) ==
    /\ pc[r] = "expire"
    /\ redis' = RedisExpire(redis, new_id[r], timeout)
    /\ pc' = [pc EXCEPT ![r] = "new"]
    /\ Step("new_session_id", r, "expire", FALSE)
    /\ UNCHANGED <<timeout, cookie_on_exception, unpacker, cookieval, exception,
                   session_id, new_id, session, callbacks, response>>

\* add_cookie(session_id): the response callbacks of the request after it.
add_cookie(cbs, id, on_exception, exc) ==
    IF ~on_exception /\ ~exc THEN cbs
    ELSE Append(cbs, [callback |-> "set_cookie", session_id |-> id])

\* A constructor that does not look for the 'on' marker.
RedisSessionInit_NoMarker(db, buf, id, tmo) ==
    LET got == IF RedisGet(db, id) = Nil THEN UnpackFail("TypeError", buf)
               ELSE deserialize(buf, RedisGet(db, id))
    IN  [raised |-> got.status # "ok",
         unpacker |-> got.rest,
         session |-> [session_id |-> id, managed_dict |-> got.obj,
                      default_timeout |-> tmo, timeout |-> tmo, new |-> FALSE]]

\* RedisSession.__init__: the session, or the exception of from_redis, and
\* the unpacker's buffer after it.
RedisSessionInit(db, buf, id, tmo) ==
    LET persisted == RedisGet(db, id)
        got == IF persisted = Nil THEN UnpackFail("TypeError", buf)
               ELSE deserialize(buf, persisted)
    IN  [raised |-> got.status # "ok",
         unpacker |-> got.rest,
         session |-> [session_id |-> id,
                      managed_dict |-> got.obj,
                      default_timeout |-> tmo,
                      timeout |-> IF got.obj["on"] # Missing THEN 0 ELSE tmo,
                      new |-> FALSE]]

\* The factory is left: its locals and the cookie it read are dead.
FactoryReturns(r) ==
    /\ cookieval' = [cookieval EXCEPT ![r] = None]
    /\ session_id' = [session_id EXCEPT ![r] = None]
    /\ new_id' = [new_id EXCEPT ![r] = None]

\* factory, lines 151-152: the session of the cookie's id is constructed.
FactoryExisting(r) ==
    /\ pc[r] = "existing"
    /\ LET made == RedisSessionInit(redis, unpacker, session_id[r], timeout)
       IN  /\ unpacker' = made.unpacker
           /\ IF made.raised
              THEN /\ pc' = [pc EXCEPT ![r] = "raised"]
                   /\ exception' = [exception EXCEPT ![r] = TRUE]
                   /\ UNCHANGED session
              ELSE /\ pc' = [pc EXCEPT ![r] = "ready"]
                   /\ session' = [session EXCEPT ![r] = made.session]
                   /\ UNCHANGED exception
           /\ Step("factory_existing", r, "get", made.raised)
    /\ FactoryReturns(r)
    /\ UNCHANGED <<timeout, cookie_on_exception, redis, callbacks, response>>

\* factory, lines 155-157: add_cookie(new_id), the session of the new id is
\* constructed and marked new.
FactoryNew(r) ==
    /\ pc[r] = "new"
    /\ callbacks' = [callbacks EXCEPT ![r] =
                       add_cookie(@, new_id[r], cookie_on_exception, exception[r])]
    /\ LET made == RedisSessionInit(redis, unpacker, new_id[r], timeout)
       IN  /\ unpacker' = made.unpacker
           /\ IF made.raised
              THEN /\ pc' = [pc EXCEPT ![r] = "raised"]
                   /\ exception' = [exception EXCEPT ![r] = TRUE]
                   /\ UNCHANGED session
              ELSE /\ pc' = [pc EXCEPT ![r] = "ready"]
                   /\ session' = [session EXCEPT ![r] = [made.session EXCEPT !.new = TRUE]]
                   /\ UNCHANGED exception
           /\ Step("factory_new", r, "get", made.raised)
    /\ FactoryReturns(r)
    /\ UNCHANGED <<timeout, cookie_on_exception, redis, response>>

(* ------------------- the load, command by command ---------------------- *)

\* The id the factory constructs its session on.
LoadId(r) == IF pc[r] \in {"existing", "existing_unpack"} THEN session_id[r] ELSE new_id[r]

\* RedisSession.__init__ as far as _unpacker.feed: (add_cookie on the new
\* branch,) persisted = self.redis.get(self.session_id) and
\* _unpacker.feed(persisted), which raises TypeError for None.
FromRedisFeed(r) ==
    /\ pc[r] \in {"existing", "new"}
    /\ callbacks' = [callbacks EXCEPT ![r] =
                       IF pc[r] = "new"
                       THEN add_cookie(@, new_id[r], cookie_on_exception, exception[r])
                       ELSE @]
    /\ LET persisted == RedisGet(redis, LoadId(r))
       IN  IF persisted = Nil
           THEN /\ pc' = [pc EXCEPT ![r] = "raised"]
                /\ exception' = [exception EXCEPT ![r] = TRUE]
                /\ FactoryReturns(r)
                /\ UNCHANGED unpacker
                /\ Step("feed", r, "get", TRUE)
           ELSE /\ pc' = [pc EXCEPT ![r] = IF pc[r] = "new" THEN "new_unpack"
                                           ELSE "existing_unpack"]
                /\ unpacker' = unpacker \o persisted
                /\ UNCHANGED <<exception, cookieval, session_id, new_id>>
                /\ Step("feed", r, "get", FALSE)
    /\ UNCHANGED <<timeout, cookie_on_exception, redis, session, response>>

\* The rest of it: return _unpacker.unpack(), the timeout is set from the
\* payload, and the factory returns the session.
FromRedisUnpack(r) ==
    /\ pc[r] \in {"existing_unpack", "new_unpack"}
    /\ LET got == Unpack(unpacker)
       IN  /\ unpacker' = got.rest
           /\ IF got.status # "ok"
              THEN /\ pc' = [pc EXCEPT ![r] = "raised"]
                   /\ exception' = [exception EXCEPT ![r] = TRUE]
                   /\ UNCHANGED session
              ELSE /\ pc' = [pc EXCEPT ![r] = "ready"]
                   /\ session' = [session EXCEPT ![r] =
                         [session_id |-> LoadId(r),
                          managed_dict |-> got.obj,
                          default_timeout |-> timeout,
                          timeout |-> IF got.obj["on"] # Missing THEN 0 ELSE timeout,
                          new |-> pc[r] = "new_unpack"]]
                   /\ UNCHANGED exception
           /\ Step(IF pc[r] = "new_unpack" THEN "factory_new" ELSE "factory_existing",
                   r, "none", got.status # "ok")
    /\ FactoryReturns(r)
    /\ UNCHANGED <<timeout, cookie_on_exception, redis, callbacks, response>>

(* ------------------------- persist / refresh --------------------------- *)

to_redis(s) == serialize(s.managed_dict)

\* A persist that only resets the expire time.
persist_ExpireOnly(db, s) ==
    IF s.timeout # 0 THEN RedisExpire(db, s.session_id, s.timeout) ELSE db

\* A persist that never gives the key a time to live.
persist_SetOnly(db, s) == RedisSet(db, s.session_id, to_redis(s))

\* A persist that keeps the stored keys the session does not hold.
persist_Merge(db, s) ==
    LET stored == IF db[s.session_id].present THEN Unpack(db[s.session_id].val).obj
                  ELSE EmptyDict
        merged == [key \in PKeys |->
                      IF s.managed_dict[key] # Missing THEN s.managed_dict[key]
                      ELSE stored[key]]
    IN  IF s.timeout # 0
        THEN RedisSetex(db, s.session_id, s.timeout, serialize(merged))
        ELSE RedisSet(db, s.session_id, serialize(merged))

\* The store after the write of wrapped_persist.
persist(db, s) ==
    IF s.timeout # 0
    THEN RedisSetex(db, s.session_id, s.timeout, to_redis(s))
    ELSE RedisSet(db, s.session_id, to_redis(s))

persist_cmd(s) == IF s.timeout # 0 THEN "setex" ELSE "set"

\* A refresh that does not look at the timeout.
refresh_Always(db, s) == RedisExpire(db, s.session_id, s.timeout)

\* A refresh that forgets the store.
refresh_None(db, s) == db

\* The store after wrapped_refresh.
refresh(db, s) ==
    IF s.timeout # 0 THEN RedisExpire(db, s.session_id, s.timeout) ELSE db

refresh_cmd(s) == IF s.timeout # 0 THEN "expire" ELSE "none"

\* What a wrapped method leaves: the session, or an exception before any
\* change.
Returned(s) == [raised |-> FALSE, session |-> s, result |-> "None"]
Raised(s) == [raised |-> TRUE, session |-> s, result |-> "None"]

\* The method returns a value the application looks at.
ReturnedWith(s, result) == [raised |-> FALSE, session |-> s, result |-> result]

\* wrapped_persist around a method of request r's session: when the method
\* raises, nothing is written.
wrapped_persist(r, op, out) ==
    /\ pc[r] = "ready"
    /\ IF out.raised
       THEN /\ UNCHANGED <<redis, session>>
            /\ Step(op, r, "none", TRUE)
       ELSE /\ session' = [session EXCEPT ![r] = out.session]
            /\ redis' = persist(redis, out.session)
            /\ StepResult(op, r, persist_cmd(out.session), FALSE, out.result)
    /\ UNCHANGED <<timeout, cookie_on_exception, unpacker, pc, cookieval, exception,
                   session_id, new_id, callbacks, response>>

\* wrapped_refresh around a method of request r's session.
wrapped_refresh(r, op, out) ==
    /\ pc[r] = "ready"
    /\ IF out.raised
       THEN /\ UNCHANGED <<redis, session>>
            /\ Step(op, r, "none", TRUE)
       ELSE /\ session' = [session EXCEPT ![r] = out.session]
            /\ redis' = refresh(redis, out.session)
            /\ StepResult(op, r, refresh_cmd(out.session), FALSE, out.result)
    /\ UNCHANGED <<timeout, cookie_on_exception, unpacker, pc, cookieval, exception,
                   session_id, new_id, callbacks, response>>

(* ------------------- dict methods under @persist ----------------------- *)

With(s, d) == [s EXCEPT !.managed_dict = d]

__delitem__(r) ==
    \E key \in PKeys :
        wrapped_persist(r, "persist",
            IF session[r].managed_dict[key] = Missing THEN Raised(session[r])
            ELSE Returned(With(session[r], [session[r].managed_dict EXCEPT ![key] = Missing])))

__setitem__(r) ==
    \E key \in UserKeys, value \in UserValues :
        wrapped_persist(r, "persist",
            Returned(With(session[r], [session[r].managed_dict EXCEPT ![key] = value])))

setdefault(r) ==
    \E key \in UserKeys, default \in UserValues :
        wrapped_persist(r, "persist",
            Returned(With(session[r],
                IF session[r].managed_dict[key] = Missing
                THEN [session[r].managed_dict EXCEPT ![key] = default]
                ELSE session[r].managed_dict)))

clear(r) ==
    wrapped_persist(r, "persist", Returned(With(session[r], EmptyDict)))

pop(r) ==
    \E key \in PKeys :
        wrapped_persist(r, "persist",
            Returned(With(session[r], [session[r].managed_dict EXCEPT ![key] = Missing])))

\* The mappings given to update.
Others ==
    {[EmptyDict EXCEPT ![key] = value] : key \in UserKeys, value \in UserValues \cup {"True"}}

update(r) ==
    \E other \in Others :
        wrapped_persist(r, "persist",
            Returned(With(session[r],
                [key \in PKeys |-> IF other[key] # Missing THEN other[key]
                                   ELSE session[r].managed_dict[key]])))

\* dict.popitem takes whichever item the dict gives first; KeyError when
\* the dict is empty.
popitem(r) ==
    IF session[r].managed_dict = EmptyDict
    THEN wrapped_persist(r, "persist", Raised(session[r]))
    ELSE \E key \in {k \in PKeys : session[r].managed_dict[k] # Missing} :
            wrapped_persist(r, "persist",
                Returned(With(session[r], [session[r].managed_dict EXCEPT ![key] = Missing])))

changed(r) ==
    wrapped_persist(r, "persist", Returned(session[r]))

set_timeout(r) ==
    wrapped_persist(r, "set_timeout",
        Returned([session[r] EXCEPT
                    !.timeout = session[r].default_timeout,
                    !.managed_dict = [@ EXCEPT !["on"] = Missing]]))

dont_expire(r) ==
    wrapped_persist(r, "dont_expire",
        Returned([session[r] EXCEPT
                    !.timeout = 0,
                    !.managed_dict = [@ EXCEPT !["on"] = "True"]]))

\* What a step of a method under @persist is recorded as: the eight dict
\* methods and changed as "persist".
MutatingOps == {"persist", "set_timeout", "dont_expire"}

(* ------------------- dict methods under @refresh ----------------------- *)

\* managed_dict[key]: KeyError when the key is missing.
__getitem__(r) ==
    \E key \in PKeys :
        wrapped_refresh(r, "refresh",
            IF session[r].managed_dict[key] = Missing THEN Raised(session[r])
            ELSE Returned(session[r]))

\* The read-only methods that never raise: they compute their result from
\* managed_dict and leave it as it is.
\* peek_flash is self.get('_f_' + queue, []).
ReadOps ==
    {"__contains__", "keys", "items", "get", "__iter__", "has_key", "values",
     "itervalues", "iteritems", "iterkeys", "peek_flash"}

\* Any one of them.
Read(r) ==
    /\ ReadOps # {}
    /\ wrapped_refresh(r, "refresh", Returned(session[r]))

(* ----------------------------- invalidate ------------------------------ *)

\* A delete_cookie that registers nothing.
delete_cookie_None(cbs) == cbs

\* delete_cookie(): the response callbacks of the request after it.
delete_cookie(cbs) == Append(cbs, [callback |-> "delete_cookie", session_id |-> None])

\* invalidate: self.clear(), under @persist, then self.delete_cookie().
invalidate(r) ==
    /\ pc[r] = "ready"
    /\ Len(callbacks[r]) < MaxCallbacks
    /\ LET s == With(session[r], EmptyDict)
       IN  /\ session' = [session EXCEPT ![r] = s]
           /\ redis' = persist(redis, s)
           /\ Step("invalidate", r, persist_cmd(s), FALSE)
    /\ callbacks' = [callbacks EXCEPT ![r] = delete_cookie(@)]
    /\ UNCHANGED <<timeout, cookie_on_exception, unpacker, pc, cookieval, exception,
                   session_id, new_id, response>>

(* ------------------------------- flash --------------------------------- *)

\* dict.get(key, default) and the dict without the key.
Get(d, key, default) == IF d[key] = Missing THEN default ELSE d[key]
Without(d, key) == [d EXCEPT ![key] = Missing]

\* A flash that appends whatever it is given.
flash_appends_Always(storage, msg, allow_duplicate) == TRUE

\* flash, line 190: allow_duplicate or (msg not in storage).
flash_appends(storage, msg, allow_duplicate) ==
    allow_duplicate \/ ~(\E i \in 1..Len(storage) : storage[i] = msg)

\* flash, line 189: storage = self.setdefault('_f_' + queue, []), under
\* @persist.
flash_setdefault(r) ==
    /\ pc[r] = "ready"
    /\ LET s == With(session[r],
                     [session[r].managed_dict EXCEPT
                        !["_f_"] = Get(session[r].managed_dict, "_f_", "[]")])
       IN  /\ session' = [session EXCEPT ![r] = s]
           /\ redis' = persist(redis, s)
           /\ StepResult("flash_setdefault", r, persist_cmd(s), FALSE, s.managed_dict["_f_"])
    /\ pc' = [pc EXCEPT ![r] = "flash"]
    /\ UNCHANGED <<timeout, cookie_on_exception, unpacker, cookieval, exception,
                   session_id, new_id, callbacks, response>>

\* flash, lines 190-192: the message is appended to the list held by
\* managed_dict and changed() persists, or nothing is done.  The step is
\* recorded as "flash" when allow_duplicate was False.
flash_append(r) ==
    /\ pc[r] = "flash"
    /\ \E msg \in Messages, allow_duplicate \in BOOLEAN :
         LET storage == FlashSeq(session[r].managed_dict["_f_"])
             op == IF allow_duplicate THEN "flash_allow_duplicate" ELSE "flash"
         IN  IF flash_appends(storage, msg, allow_duplicate)
             THEN /\ Len(storage) < MaxFlash
                  /\ LET s == With(session[r],
                                   [session[r].managed_dict EXCEPT
                                      !["_f_"] = FlashRepr(Append(storage, msg))])
                     IN  /\ session' = [session EXCEPT ![r] = s]
                         /\ redis' = persist(redis, s)
                         /\ StepResult(op, r, persist_cmd(s), FALSE, msg)
             ELSE /\ UNCHANGED <<redis, session>>
                  /\ StepResult(op, r, "none", FALSE, msg)
    /\ pc' = [pc EXCEPT ![r] = "ready"]
    /\ UNCHANGED <<timeout, cookie_on_exception, unpacker, cookieval, exception,
                   session_id, new_id, callbacks, response>>

\* peek_flash: self.get('_f_' + queue, []).
peek_flash(r) ==
    wrapped_refresh(r, "peek_flash",
        ReturnedWith(session[r], Get(session[r].managed_dict, "_f_", "[]")))

\* pop_flash: self.pop('_f_' + queue, []).
pop_flash(r) ==
    wrapped_persist(r, "pop_flash",
        ReturnedWith(With(session[r], Without(session[r].managed_dict, "_f_")),
                     Get(session[r].managed_dict, "_f_", "[]")))

(* ---------------------------- CSRF token ------------------------------- *)

\* A get_csrf_token that takes every token for None.
token_is_None_Always(token) == TRUE

\* get_csrf_token, line 182: token is None.
token_is_None(token) == token = "None"

\* get_csrf_token, lines 181-186: token = self.get('csrf', None), under
\* @refresh; the token is returned, or new_csrf_token comes next.
get_csrf_token(r) ==
    /\ pc[r] = "ready"
    /\ LET token == Get(session[r].managed_dict, "csrf", "None")
       IN  /\ redis' = refresh(redis, session[r])
           /\ IF token_is_None(token)
              THEN /\ pc' = [pc EXCEPT ![r] = "new_csrf_token"]
                   /\ StepResult("get_csrf_token_get", r, refresh_cmd(session[r]), FALSE, "None")
              ELSE /\ pc' = pc
                   /\ StepResult("get_csrf_token", r, refresh_cmd(session[r]), FALSE, token)
    /\ UNCHANGED <<timeout, cookie_on_exception, unpacker, cookieval, exception,
                   session_id, new_id, session, callbacks, response>>

\* new_csrf_token, called by the application or by get_csrf_token: a token
\* is drawn, self['csrf'] = token under @persist, and it is returned.
new_csrf_token(r) ==
    /\ pc[r] \in {"ready", "new_csrf_token"}
    /\ \E token \in Tokens :
         LET s == With(session[r], [session[r].managed_dict EXCEPT !["csrf"] = token])
         IN  /\ session' = [session EXCEPT ![r] = s]
             /\ redis' = persist(redis, s)
             /\ StepResult(IF pc[r] = "ready" THEN "new_csrf_token" ELSE "get_csrf_token",
                           r, persist_cmd(s), FALSE, token)
    /\ pc' = [pc EXCEPT ![r] = "ready"]
    /\ UNCHANGED <<timeout, cookie_on_exception, unpacker, cookieval, exception,
                   session_id, new_id, callbacks, response>>

(* --------------------------- the response ------------------------------ *)

\* set_cookie_callback(request, response) of add_cookie.
set_cookie_callback(cb) ==
    [header |-> "set_cookie", value |-> sign_session_id(cb.session_id, Secret)]

\* set_cookie_callback(request, response) of delete_cookie.
delete_cookie_callback(cb) == [header |-> "delete_cookie", value |-> <<>>]

\* A registered callback, called.
Callback(cb) ==
    IF cb.callback = "set_cookie" THEN set_cookie_callback(cb)
    ELSE delete_cookie_callback(cb)

\* The request ends: after it the handling may have raised; the response
\* callbacks run in order, and the session object is garbage (only whether
\* it was new is kept).
Respond(r) ==
    /\ pc[r] \in {"ready", "raised"}
    /\ \E e \in BOOLEAN :
         exception' = [exception EXCEPT ![r] = @ \/ e]
    /\ response' = [response EXCEPT ![r] =
                      [i \in 1..Len(callbacks[r]) |-> Callback(callbacks[r][i])]]
    /\ callbacks' = [callbacks EXCEPT ![r] = <<>>]
    /\ session' = [session EXCEPT ![r] = [NoSession EXCEPT !.new = session[r].new]]
    /\ pc' = [pc EXCEPT ![r] = "done"]
    /\ Step("respond", r, "none", FALSE)
    /\ UNCHANGED <<timeout, cookie_on_exception, redis, unpacker, cookieval,
                   session_id, new_id>>

(* ------------------------------- time ---------------------------------- *)

\* A tick of the store's clock: keys whose time is up are removed.
Tick ==
    /\ \E key \in Ids : redis[key].ttl > 0
    /\ redis' = RedisTick(redis)
    /\ Step("tick", "none", "none", FALSE)
    /\ UNCHANGED <<timeout, cookie_on_exception, unpacker, pc, cookieval, exception,
                   session_id, new_id, session, callbacks, response>>

(* -------------------------- specification ------------------------------ *)

\* The steps of a request once its factory is called.
Handle(r) ==
    \/ NewSessionIdSetnx(r)
    \/ NewSessionIdExpire(r)
    \/ FactoryExisting(r)
    \/ FactoryNew(r)
    \/ __delitem__(r)
    \/ __setitem__(r)
    \/ setdefault(r)
    \/ clear(r)
    \/ pop(r)
    \/ update(r)
    \/ popitem(r)
    \/ changed(r)
    \/ set_timeout(r)
    \/ dont_expire(r)
    \/ __getitem__(r)
    \/ Read(r)
    \/ Respond(r)

\* The requests come in order, r1 first.
InOrder(r) == r = "r2" => pc["r1"] # "idle"

\* One request at a time: a request comes when the one before it is done.
OneAtATime(r) == r = "r2" => pc["r1"] = "done"

\* A server that handles one request at a time, while time passes.
Next ==
    \/ \E r \in Requests : OneAtATime(r) /\ Factory(r)
    \/ Handle("r1")
    \/ Handle("r2")
    \/ Tick

Spec == Init /\ [][Next]_vars

\* A threaded server: the steps of two requests interleave.  It is
\* configured with cookie_on_exception on (the default).
InitThreads == Init /\ cookie_on_exception

NextThreads ==
    \/ \E r \in Requests : InOrder(r) /\ Factory(r)
    \/ Handle("r1")
    \/ Handle("r2")
    \/ Tick

SpecThreads == InitThreads /\ [][NextThreads]_vars

\* An application that uses the flash queue, one request at a time.
NextFlash ==
    \/ \E r \in Requests : OneAtATime(r) /\ Factory(r)
    \/ \E r \in Requests : NewSessionIdSetnx(r)
    \/ \E r \in Requests : NewSessionIdExpire(r)
    \/ \E r \in Requests : FactoryExisting(r)
    \/ \E r \in Requests : FactoryNew(r)
    \/ \E r \in Requests : flash_setdefault(r)
    \/ \E r \in Requests : flash_append(r)
    \/ \E r \in Requests : peek_flash(r)
    \/ \E r \in Requests : pop_flash(r)
    \/ \E r \in Requests : Respond(r)
    \/ Tick

SpecFlash == InitThreads /\ [][NextFlash]_vars

\* An application that writes to its session, switches it between the two
\* modes and invalidates it, one request at a time.
NextInvalidate ==
    \/ \E r \in Requests : OneAtATime(r) /\ Factory(r)
    \/ \E r \in Requests : NewSessionIdSetnx(r)
    \/ \E r \in Requests : NewSessionIdExpire(r)
    \/ \E r \in Requests : FactoryExisting(r)
    \/ \E r \in Requests : FactoryNew(r)
    \/ \E r \in Requests : __setitem__(r)
    \/ \E r \in Requests : dont_expire(r)
    \/ \E r \in Requests : set_timeout(r)
    \/ \E r \in Requests : invalidate(r)
    \/ \E r \in Requests : Respond(r)
    \/ Tick

SpecInvalidate == InitThreads /\ [][NextInvalidate]_vars

\* An application that uses the CSRF token and deletes keys of its session,
\* one request at a time.
NextCsrf ==
    \/ \E r \in Requests : OneAtATime(r) /\ Factory(r)
    \/ \E r \in Requests : NewSessionIdSetnx(r)
    \/ \E r \in Requests : NewSessionIdExpire(r)
    \/ \E r \in Requests : FactoryExisting(r)
    \/ \E r \in Requests : FactoryNew(r)
    \/ \E r \in Requests : get_csrf_token(r)
    \/ \E r \in Requests : new_csrf_token(r)
    \/ \E r \in Requests : __delitem__(r)
    \/ \E r \in Requests : dont_expire(r)
    \/ \E r \in Requests : Respond(r)
    \/ Tick

SpecCsrf == InitThreads /\ [][NextCsrf]_vars

\* The keys earlier requests may have left in the store: new sessions that
\* expire (or do not, without a timeout) and sessions in indefinite mode.
LeftKeys ==
    {NoKey,
     [present |-> TRUE, val |-> serialize([EmptyDict EXCEPT !["on"] = "True"]),
      ttl |-> NoExpiration]}
    \cup (IF timeout = 0
          THEN {[present |-> TRUE, val |-> _empty_session, ttl |-> NoExpiration]}
          ELSE {[present |-> TRUE, val |-> _empty_session, ttl |-> t] : t \in 1..timeout})

\* The factory over a store that holds sessions of earlier requests.
InitAlloc ==
    /\ timeout \in {0, MaxTimeout}
    /\ cookie_on_exception = TRUE
    /\ redis \in [Ids -> LeftKeys]
    /\ unpacker = <<>>
    /\ pc = [r \in Requests |-> "idle"]
    /\ cookieval = [r \in Requests |-> None]
    /\ exception = [r \in Requests |-> FALSE]
    /\ session_id = [r \in Requests |-> None]
    /\ new_id = [r \in Requests |-> None]
    /\ session = [r \in Requests |-> NoSession]
    /\ callbacks = [r \in Requests |-> <<>>]
    /\ response = [r \in Requests |-> <<>>]
    /\ last = [op |-> "init", r |-> "none", cmd |-> "none", raised |-> FALSE,
               result |-> "None"]

NextAlloc ==
    \/ \E r \in Requests : InOrder(r) /\ Factory(r)
    \/ \E r \in Requests : NewSessionIdSetnx(r)
    \/ \E r \in Requests : NewSessionIdExpire(r)
    \/ \E r \in Requests : FactoryExisting(r)
    \/ \E r \in Requests : FactoryNew(r)
    \/ \E r \in Requests : Respond(r)
    \/ Tick

\* A request inside new_session_id keeps running, and Random is fair: an
\* id that could be drawn again and again is drawn.
FairAlloc ==
    \A r \in Requests :
        /\ WF_vars(NewSessionIdExpire(r))
        /\ \A id \in Ids : SF_vars(NewSessionIdDraw(r, id))

SpecAlloc == InitAlloc /\ [][NextAlloc]_vars /\ FairAlloc

\* A threaded server loading sessions: the loads of two requests interleave
\* command by command on the one unpacker of the module.
NextLoad ==
    \/ \E r \in Requests : InOrder(r) /\ Factory(r)
    \/ \E r \in Requests : NewSessionIdSetnx(r)
    \/ \E r \in Requests : NewSessionIdExpire(r)
    \/ \E r \in Requests : FromRedisFeed(r)
    \/ \E r \in Requests : FromRedisUnpack(r)
    \/ \E r \in Requests : Respond(r)

SpecLoad == InitAlloc /\ [][NextLoad]_vars

(* ------------------------------ claims --------------------------------- *)

\* The session of the request that took the last step, and its key.
LastSession == session[last.r]
LastKey == redis[LastSession.session_id]

\* The last step was a method under @persist that returned.
Persisted == last.op \in MutatingOps /\ ~last.raised

\* The last step was a method under @refresh that returned.
Refreshed == last.op = "refresh" /\ ~last.raised

\* C1: right after a mutating operation of a session returns, the value
\* stored under its id is the serialization of its managed_dict, and a
\* session constructed on that id at that moment holds an equal payload.
C1_PersistStoresPayload ==
    Persisted =>
        /\ LastKey.present
        /\ LastKey.val = serialize(LastSession.managed_dict)
        /\ LET fresh == RedisSessionInit(redis, unpacker, LastSession.session_id, timeout)
           IN  ~fresh.raised /\ fresh.session.managed_dict = LastSession.managed_dict

C1_Witness ==
    /\ Persisted
    /\ last.op = "persist"
    /\ LastSession.managed_dict["k"] = "2"
    /\ LastKey.val = <<129, 161, 107, 2>>

\* C2: a mutating operation writes with setex when the session's timeout is
\* positive and with set when it is 0; right after it the key's time to
\* live is the timeout, or the key has no expiration when the timeout is 0.
C2_PersistSetsTtl ==
    Persisted =>
        /\ last.cmd = (IF LastSession.timeout > 0 THEN "setex" ELSE "set")
        /\ LastKey.ttl = (IF LastSession.timeout > 0 THEN LastSession.timeout
                           ELSE NoExpiration)

\* dont_expire on a session that had a timeout: the key's time to live is
\* gone.
C2_Witness ==
    /\ Persisted
    /\ last.op = "dont_expire"
    /\ LastSession.default_timeout > 0
    /\ LastSession.timeout = 0
    /\ LastKey.ttl = NoExpiration

\* C3 as stated: right after a read-only operation returns on a session
\* with timeout T > 0, the time to live of its key is T, in every state.
C3_Original ==
    (Refreshed /\ LastSession.timeout > 0) => LastKey.ttl = LastSession.timeout

\* C3 amended: a read-only operation that returns on a session with
\* timeout T > 0 sets the time to live of the session's key to T if the key
\* is still in the store; a key that has expired is not brought back by
\* the read.
C3_ReadStep ==
    (last'.op = "refresh" /\ ~last'.raised /\ session[last'.r].timeout > 0) =>
        LET id == session[last'.r].session_id
        IN  IF redis[id].present
            THEN redis'[id].present /\ redis'[id].ttl = session[last'.r].timeout
            ELSE ~redis'[id].present

\* C3 (amended): every step of the program is such a read step: the time
\* to live is reset to T only for a key that is still in the store.
C3_RefreshResetsTtlOfLiveKey == [][C3_ReadStep]_vars

C3_Witness ==
    /\ Refreshed
    /\ LastSession.timeout = MaxTimeout
    /\ LastKey.present
    /\ LastKey.ttl = MaxTimeout

\* C4: a read-only operation changes neither managed_dict nor the value
\* stored under any key; one that returns issues expire exactly when the
\* session's timeout is positive, and no other store command; with timeout
\* 0 (and when the method raises) the store is left as it is.
C4_ReadStep ==
    last'.op = "refresh" =>
        /\ session' = session
        /\ \A key \in Ids :
              /\ redis'[key].present = redis[key].present
              /\ redis'[key].val = redis[key].val
        /\ ~last'.raised =>
              (last'.cmd = "expire" <=> session[last'.r].timeout > 0)
        /\ last'.cmd \in {"expire", "none"}
        /\ last'.cmd = "none" => redis' = redis
        /\ last'.cmd = "expire" =>
              \A key \in Ids : key # session[last'.r].session_id => redis'[key] = redis[key]

\* C4: every step of the program keeps the frame of a read-only operation.
C4_ReadOnlyFrame == [][C4_ReadStep]_vars

\* A read on a session in indefinite mode whose key has a value.
C4_Witness ==
    /\ Refreshed
    /\ LastSession.timeout = 0
    /\ LastSession.default_timeout > 0
    /\ last.cmd = "none"
    /\ LastKey.present

\* C5: a factory call whose cookie verifies under the secret and whose id
\* is in the store takes the branch of the existing session, and when it
\* returns the session is bound to the cookie's id, is not new and holds
\* the payload stored under the id; the call creates no key and schedules
\* no response callback.
C5_FactoryStep ==
    \A r \in Requests :
        /\ (/\ last'.op = "factory" /\ last'.r = r
            /\ \E id \in Ids : cookieval'[r] = sign_session_id(id, Secret)
                                /\ redis[id].present)
           => /\ pc'[r] = "existing"
              /\ session_id'[r] = Drop(cookieval'[r], SigLen)
              /\ redis' = redis
              /\ callbacks'[r] = <<>>
        /\ (last'.op = "factory_existing" /\ last'.r = r /\ ~last'.raised)
           => /\ cookieval[r] = sign_session_id(session'[r].session_id, Secret)
              /\ session'[r].session_id \in Ids
              /\ ~session'[r].new
              /\ redis[session'[r].session_id].present
              /\ serialize(session'[r].managed_dict) = redis[session'[r].session_id].val
              /\ redis' = redis
              /\ callbacks'[r] = <<>>

C6_Original ==
    (last.op = "factory_new" /\ ~last.raised) =>
        /\ LastSession.new
        /\ LastSession.session_id \in Ids
        /\ LastSession.managed_dict = EmptyDict
        /\ callbacks[last.r] =
              <<[callback |-> "set_cookie", session_id |-> LastSession.session_id]>>

\* The response of request r sets the session cookie.
CookieSet(r) ==
    \E i \in 1..Len(response[r]) : response[r][i].header = "set_cookie"

\* C7: a request whose session was new ends with the cookie set, unless
\* cookie_on_exception is off and an exception occurred.
C7_Original ==
    \A r \in Requests :
        (pc[r] = "done" /\ session[r].new) =>
            (CookieSet(r) <=> (cookie_on_exception \/ ~exception[r]))

\* The keys of the store.
Present(db) == {key \in Ids : db[key].present}

\* C8, the steps of new_session_id: an id becomes the call's own only by
\* the call's setnx on it, with the key absent just before and set by it;
\* a setnx leaves every key that exists as it is; a setnx that wins makes
\* exactly one key and one that loses makes none and draws again; expire
\* makes no key and changes no value.
C8_AllocStep ==
    \A r \in Requests :
        /\ (new_id'[r] # new_id[r] /\ new_id'[r] # None)
           => /\ last'.r = r /\ last'.cmd = "setnx"
              /\ ~redis[new_id'[r]].present
              /\ redis'[new_id'[r]].present
        /\ (last'.r = r /\ last'.cmd = "setnx")
           => /\ \A key \in Present(redis) : redis'[key] = redis[key]
              /\ IF last'.op = "retry"
                 THEN redis' = redis /\ pc'[r] = "new_session_id" /\ new_id'[r] = new_id[r]
                 ELSE /\ Cardinality(Present(redis')) = Cardinality(Present(redis)) + 1
                      /\ Present(redis') = Present(redis) \cup {new_id'[r]}
        /\ (last'.r = r /\ last'.op = "new_session_id" /\ last'.cmd = "expire")
           => /\ new_id'[r] = new_id[r]
              /\ Present(redis') = Present(redis)
              /\ \A key \in Ids : redis'[key].val = redis[key].val

\* C8, the race: two calls in flight never hold the same id as their own.
C8_NoSharedId ==
    \A r1, r2 \in Requests :
        (r1 # r2 /\ pc[r1] = "expire" /\ pc[r2] = "expire") => new_id[r1] # new_id[r2]

\* C8: under any interleaving, new_session_id returns an id only after its
\* own setnx on it succeeded, changes no existing key's value, makes one
\* key for each call that succeeds, and two calls that draw the same id
\* never both take it.
C8_AllocatorIsAtomic == []C8_NoSharedId /\ [][C8_AllocStep]_vars

\* r2 drew the id r1 has just set and not yet expired, and goes round again.
C8_Witness ==
    /\ last.op = "retry" /\ last.r = "r2"
    /\ pc["r1"] = "expire"
    /\ pc["r2"] = "new_session_id"
    /\ Present(redis) = {new_id["r1"]}

\* C9: when new_session_id returns an id, the id is in the store, its value
\* decodes to the empty payload, and its time to live is the timeout, or it
\* has no expiration when the timeout is 0.
C9_NewIdIsEmptyWithTtl ==
    last.op = "new_session_id" =>
        LET key == redis[new_id[last.r]]
        IN  /\ key.present
            /\ Unpack(key.val) = [status |-> "ok", obj |-> EmptyDict, rest |-> <<>>]
            /\ key.ttl = (IF timeout > 0 THEN timeout ELSE NoExpiration)

\* The second request's call returns, with a timeout, while the key of the
\* first is still there.
C9_Witness ==
    /\ last.op = "new_session_id" /\ last.r = "r2"
    /\ timeout = MaxTimeout
    /\ redis[new_id["r2"]].ttl = MaxTimeout
    /\ Cardinality(Present(redis)) = 2

\* C10: right after dont_expire the session's timeout is 0 and a session
\* constructed on its id, with any default timeout, has timeout 0; right
\* after set_timeout the session's timeout is its default_timeout, 'on' is
\* neither in managed_dict nor in the stored payload, the key's time to
\* live is default_timeout (no expiration when that is 0), and a session
\* constructed on the id has the default timeout.
C10_IndefiniteModeRoundTrip ==
    /\ (last.op = "dont_expire" /\ ~last.raised) =>
          /\ LastSession.timeout = 0
          /\ \A tmo \in 0..MaxTimeout :
                LET fresh == RedisSessionInit(redis, unpacker, LastSession.session_id, tmo)
                IN  ~fresh.raised /\ fresh.session.timeout = 0
    /\ (last.op = "set_timeout" /\ ~last.raised) =>
          /\ LastSession.timeout = LastSession.default_timeout
          /\ LastSession.managed_dict["on"] = Missing
          /\ LastKey.present
          /\ Unpack(LastKey.val).status = "ok"
          /\ Unpack(LastKey.val).obj["on"] = Missing
          /\ LastKey.ttl = (IF LastSession.default_timeout > 0
                             THEN LastSession.default_timeout ELSE NoExpiration)
          /\ LET fresh == RedisSessionInit(redis, unpacker, LastSession.session_id,
                                           LastSession.default_timeout)
             IN  ~fresh.raised /\ fresh.session.timeout = LastSession.default_timeout

\* set_timeout on a session that was loaded from the store.
C10_Witness ==
    /\ last.op = "set_timeout"
    /\ ~LastSession.new
    /\ LastSession.default_timeout = MaxTimeout
    /\ LastKey.ttl = MaxTimeout

\* The secrets a signer or a verifier may hold.
Secrets == {Secret, WrongSecret}

\* The signature part of a cookie is the signature of its id part under
\* secret s.
WellSigned(c, s) ==
    /\ Len(c) >= SigLen
    /\ \A i \in 1..SigLen : c[i] = B32Digest(s, Drop(c, SigLen))[i]

\* The requests inside the factory, after the cookie was read.
InFactory(r) == pc[r] \in {"existing", "new_session_id", "expire", "new"}

\* C11: unsign_session_id gives the bytes after the first 32 exactly when
\* the first 32 are the signature of those bytes under the secret, and the
\* ValueError otherwise (the factory then has no session id); a signed id
\* verifies to itself under the secret that signed it, for every id and
\* secret, and not under another secret, nor with the id or the signature
\* altered, nor cut short (looked at whenever the factory has just unsigned
\* a cookie).
C11_UnsignVerifies ==
    /\ \A r \in Requests :
          (InFactory(r) /\ cookieval[r] # None) =>
              session_id[r] = (IF WellSigned(cookieval[r], Secret)
                               THEN Drop(cookieval[r], SigLen) ELSE None)
    /\ last.op = "factory" =>
          /\ \A c \in Cookies \ {None}, s \in Secrets :
                /\ unsign_session_id(c, s).raised <=> ~WellSigned(c, s)
                /\ ~unsign_session_id(c, s).raised =>
                      unsign_session_id(c, s).session_id = Drop(c, SigLen)
          /\ \A id \in Ids \cup {<<>>}, s \in Secrets :
                /\ unsign_session_id(sign_session_id(id, s), s) =
                      [raised |-> FALSE, session_id |-> id]
                /\ \A other \in Secrets \ {s} :
                      unsign_session_id(sign_session_id(id, s), other).raised
                /\ \A id2 \in (Ids \cup {<<>>}) \ {id} :
                      /\ unsign_session_id(B32Digest(s, id) \o id2, s).raised
                      /\ unsign_session_id(B32Digest(s, id2) \o id, s).raised
                /\ \A n \in 0..(SigLen - 1) :
                      unsign_session_id(Take(sign_session_id(id, s), n), s).raised

\* A request whose cookie was signed with another secret is inside the
\* factory without a session id, after one whose cookie verified.
C11_Witness ==
    /\ pc["r2"] = "new_session_id"
    /\ cookieval["r2"] = sign_session_id(<<"a">>, WrongSecret)
    /\ session_id["r2"] = None
    /\ pc["r1"] = "done"
    /\ redis[<<"a">>].present

\* No message is twice in the list.
NoDuplicate(list) == \A i, j \in 1..Len(list) : list[i] = list[j] => i = j

\* The flash queue of a payload, as a list.
Queue(d) == FlashSeq(Get(d, "_f_", "[]"))

\* The payload stored under the key of the last step's session.
LastStored == Unpack(LastKey.val).obj

\* C12, the states: the write of a flash call stores the payload with the
\* list as the call leaves it (setdefault's write when nothing is appended,
\* changed()'s when the message is); after pop_flash the queue key is in
\* neither the session's payload nor the stored one; peek_flash leaves the
\* list where it is and returns it.
C12_FlashStored ==
    /\ (last.op \in {"flash_setdefault", "flash", "flash_allow_duplicate", "pop_flash"}
          /\ last.cmd # "none") =>
            /\ LastKey.present
            /\ LastKey.val = serialize(LastSession.managed_dict)
            /\ LastStored = LastSession.managed_dict
    /\ last.op = "flash_setdefault" => LastSession.managed_dict["_f_"] # Missing
    /\ last.op = "pop_flash" =>
            /\ LastSession.managed_dict["_f_"] = Missing
            /\ LastStored["_f_"] = Missing
    /\ last.op = "peek_flash" =>
            last.result = Get(LastSession.managed_dict, "_f_", "[]")

\* C12, the steps: a flash call with allow_duplicate False leaves the list
\* as it is (and writes nothing more) when the message is in it, and else
\* puts the message at its end, so a list without duplicates stays without
\* and keeps the order of first insertion; pop_flash returns the list that
\* was there; peek_flash changes nothing; a peek_flash or pop_flash that
\* comes right after a pop_flash returns the empty list.
C12_FlashStep ==
    LET r == last'.r
        old == Queue(session[r].managed_dict)
        new == Queue(session'[r].managed_dict)
    IN  /\ last'.op = "flash_setdefault" => new = old
        /\ last'.op = "flash" =>
              /\ IF \E i \in 1..Len(old) : old[i] = last'.result
                 THEN new = old /\ redis' = redis /\ last'.cmd = "none"
                 ELSE new = Append(old, last'.result) /\ last'.cmd # "none"
              /\ NoDuplicate(old) => NoDuplicate(new)
              /\ session'[r].managed_dict["_f_"] # Missing
        /\ last'.op = "pop_flash" =>
              /\ last'.result = FlashRepr(old)
              /\ session'[r].managed_dict = Without(session[r].managed_dict, "_f_")
        /\ last'.op = "peek_flash" =>
              /\ last'.result = FlashRepr(old)
              /\ session' = session
              /\ \A key \in Ids : redis'[key].val = redis[key].val
        /\ (last.op = "pop_flash" /\ last'.op \in {"peek_flash", "pop_flash"}
              /\ last'.r = last.r) => last'.result = "[]"

\* C12: flash with allow_duplicate False keeps each message once and in
\* order of first insertion, every flash call stores the list, pop_flash
\* returns the list and removes the queue key from the payload in memory
\* and in the store, peek_flash returns it and removes nothing.
C12_FlashQueue == []C12_FlashStored /\ [][C12_FlashStep]_vars

\* A session loaded from the store with two messages in its queue was
\* given the first of them again, with allow_duplicate False.
C12_Witness ==
    /\ last.op = "flash"
    /\ last.cmd = "none"
    /\ last.result = "m"
    /\ ~LastSession.new
    /\ LastSession.managed_dict["_f_"] = "['m', 'n']"
    /\ LastKey.present
    /\ LastStored["_f_"] = "['m', 'n']"

\* C13, the state after invalidate: the payload in memory is empty, the
\* key of the session is in the store and holds the packed empty payload,
\* and the last response callback registered is the one that deletes the
\* cookie.
C13_Invalidated ==
    last.op = "invalidate" =>
        /\ LastSession.managed_dict = EmptyDict
        /\ LastKey.present
        /\ LastKey.val = serialize(EmptyDict)
        /\ LastStored = EmptyDict
        /\ Len(callbacks[last.r]) > 0
        /\ callbacks[last.r][Len(callbacks[last.r])].callback = "delete_cookie"

\* C13, the step: invalidate removes no key from the store and registers
\* exactly one callback, the one that deletes the cookie.
C13_InvalidateStep ==
    last'.op = "invalidate" =>
        /\ Present(redis) \subseteq Present(redis')
        /\ Len(callbacks'[last'.r]) = Len(callbacks[last'.r]) + 1
        /\ SubSeq(callbacks'[last'.r], 1, Len(callbacks[last'.r])) = callbacks[last'.r]
        /\ \A r \in Requests \ {last'.r} : callbacks'[r] = callbacks[r]

\* C13: after invalidate() on a session in any state the payload is empty
\* in memory and in the store, the key still exists, and delete_cookie was
\* called exactly once.
C13_InvalidateClearsAndKeepsKey == []C13_Invalidated /\ [][C13_InvalidateStep]_vars

\* invalidate on a session that was loaded from the store, held a value
\* and was in indefinite mode.
C13_Witness ==
    /\ last.op = "invalidate"
    /\ ~LastSession.new
    /\ LastSession.timeout = 0
    /\ LastSession.default_timeout = MaxTimeout
    /\ LastKey.ttl = NoExpiration
    /\ callbacks[last.r] = <<[callback |-> "delete_cookie", session_id |-> None]>>

\* C14, the state after get_csrf_token returns: what it returned is a token
\* and is the one under 'csrf'; when it made the token, the payload with
\* the token is what the store holds.
C14_TokenReturned ==
    last.op = "get_csrf_token" =>
        /\ last.result \in Tokens
        /\ LastSession.managed_dict["csrf"] = last.result
        /\ last.cmd \in {"set", "setex"} =>
              /\ LastKey.present
              /\ LastKey.val = serialize(LastSession.managed_dict)
              /\ LastStored["csrf"] = last.result

\* C14, the steps: with a token under 'csrf', get_csrf_token returns it,
\* leaves the payload and every stored value as they are and makes no
\* token; without one, the token is made by new_csrf_token, which puts it
\* under 'csrf' and changes no other key of the payload.
C14_TokenStep ==
    LET r == last'.r
        before == session[r].managed_dict
        after == session'[r].managed_dict
    IN  /\ (last'.op = "get_csrf_token" /\ before["csrf"] # Missing) =>
              /\ last'.result = before["csrf"]
              /\ session' = session
              /\ last'.cmd \in {"expire", "none"}
              /\ \A key \in Ids : redis'[key].val = redis[key].val
        /\ (last'.op = "get_csrf_token_get") =>
              /\ before["csrf"] = Missing
              /\ session' = session
              /\ \A key \in Ids : redis'[key].val = redis[key].val
        /\ (last'.op = "get_csrf_token" /\ before["csrf"] = Missing) =>
              /\ pc[r] = "new_csrf_token"
              /\ after = [before EXCEPT !["csrf"] = last'.result]
        /\ (last'.op = "new_csrf_token") =>
              after = [before EXCEPT !["csrf"] = last'.result]
        /\ (last.op \in {"get_csrf_token", "new_csrf_token"}
              /\ last'.op = "get_csrf_token" /\ last'.r = last.r) =>
              last'.result = last.result

\* C14: get_csrf_token returns the token there is, changing nothing, and
\* makes, stores and returns one when there is none; the calls after it
\* return the same token.
C14_CsrfTokenIdempotent == []C14_TokenReturned /\ [][C14_TokenStep]_vars

\* get_csrf_token returns the token a request before it made.
C14_Witness ==
    /\ last.op = "get_csrf_token"
    /\ last.r = "r2"
    /\ last.cmd = "expire"
    /\ ~LastSession.new
    /\ last.result = "t2"
    /\ LastStored["csrf"] = "t2"

\* C15 as stated: a load that finds no key under the session id (the key
\* expired after the factory's exists) gives a session with an empty
\* payload and raises nothing.
C15_Original ==
    /\ \A r \in Requests :
          (pc[r] = "existing" /\ ~RedisExists(redis, session_id[r])) =>
              LET made == RedisSessionInit(redis, unpacker, session_id[r], timeout)
              IN  ~made.raised /\ made.session.managed_dict = EmptyDict
    /\ ~(last.op = "factory_existing" /\ last.raised)

\* C16, the window: a key that expires is never further than the timeout
\* from its removal, and an access through a session with timeout T > 0
\* to a key that is there leaves it T from its removal.
C16_Window ==
    /\ \A key \in Ids : redis[key].ttl <= timeout
    /\ ((Persisted \/ Refreshed) /\ LastSession.timeout > 0 /\ LastKey.present) =>
            LastKey.ttl = LastSession.timeout

\* C16, the cookie of a removed key: the request is given a new id, and
\* the session made on it is returned, with an empty payload.
C16_NewAfterRemoval ==
    \A r \in Requests :
        (/\ InFactory(r)
         /\ \E id \in Ids : cookieval[r] = sign_session_id(id, Secret)
         /\ pc[r] # "existing") =>
            /\ session_id[r] \in Ids
            /\ pc[r] = "new" =>
                  /\ new_id[r] \in Ids
                  /\ LET made == RedisSessionInit(redis, unpacker, new_id[r], timeout)
                     IN  ~made.raised /\ made.session.managed_dict = EmptyDict

\* C16 as stated: a key with timeout T > 0 is removed T after its last
\* access, every access through a session with timeout T > 0 moves the
\* removal to T after it, and a request that brings the signed cookie of a
\* removed key is given a new session with a new id and an empty payload.
C16_Original == C16_Window /\ C16_NewAfterRemoval

\* Two requests hold session objects of the same id.
SameSession(r1, r2) ==
    /\ r1 # r2
    /\ pc[r1] = "ready" /\ pc[r2] = "ready"
    /\ session[r1].session_id = session[r2].session_id

\* C17, the states: while two requests hold sessions of one id, what is
\* stored under the id is the whole packed payload of one of them, as its
\* last mutating operation (or its load) left it.
C17_WholeBlob ==
    \A r1, r2 \in Requests :
        (SameSession(r1, r2) /\ redis[session[r1].session_id].present) =>
            redis[session[r1].session_id].val \in
                {serialize(session[r1].managed_dict), serialize(session[r2].managed_dict)}

\* C17, the steps: a mutating operation that returns stores the whole
\* payload of its session, whatever was stored before, and touches no other
\* key; a step without set, setex or setnx (a read, the end of a request,
\* a tick) changes no value that stays in the store.
C17_WriteStep ==
    /\ (last'.op \in MutatingOps /\ ~last'.raised) =>
          /\ redis'[session'[last'.r].session_id].present
          /\ redis'[session'[last'.r].session_id].val =
                serialize(session'[last'.r].managed_dict)
          /\ \A key \in Ids \ {session'[last'.r].session_id} : redis'[key] = redis[key]
    /\ last'.cmd \notin {"set", "setex", "setnx"} =>
          \A key \in Ids : redis'[key].present => redis'[key].val = redis[key].val

\* C17: with two requests on one session id and their mutating operations
\* interleaved, the stored value is always the whole payload of one of the
\* two objects, and the one that persisted last wins: what only the other
\* had written is gone.
C17_LastWriterWins == []C17_WholeBlob /\ [][C17_WriteStep]_vars

\* r1 had stored k; r2, which holds no k, has just persisted: k is lost.
C17_Witness ==
    /\ SameSession("r1", "r2")
    /\ session["r1"].managed_dict["k"] = "1"
    /\ session["r2"].managed_dict["k"] = Missing
    /\ last.r = "r2" /\ last.op = "dont_expire"
    /\ redis[session["r1"].session_id].val = serialize(session["r2"].managed_dict)
    /\ Unpack(redis[session["r1"].session_id].val).obj["k"] = Missing

\* A request is inside new_session_id: in the loop, or past it.
InLoop(r) == pc[r] = "new_session_id"
AllocReturned(r) == pc[r] \in {"new", "ready", "raised", "done"}

\* Every id Random can give is in the store.
AllPresent == Present(redis) = Ids

\* C18, the steps: the loop is left only by a setnx that made a key, a
\* setnx that made one leaves it, and while every id is in the store the
\* call stays in the loop (it neither returns nor raises).
C18_LoopStep ==
    \A r \in Requests :
        InLoop(r) =>
            /\ pc'[r] \in {"new_session_id", "expire", "new"}
            /\ pc'[r] # "new_session_id" =>
                  /\ last'.r = r /\ last'.cmd = "setnx"
                  /\ ~redis[new_id'[r]].present
                  /\ Present(redis') = Present(redis) \cup {new_id'[r]}
            /\ (last'.r = r /\ Present(redis') # Present(redis)) => pc'[r] # "new_session_id"
            /\ AllPresent => pc'[r] = "new_session_id"

\* C18: new_session_id goes round until a setnx succeeds, without a bound;
\* with a fair Random it returns unless every id is in the store, and it
\* does not return while every id is.
C18_RetriesUntilSet ==
    /\ [][C18_LoopStep]_vars
    /\ \A r \in Requests : InLoop(r) ~> (AllocReturned(r) \/ AllPresent)

\* Every id is in the store for good and a call has gone round the loop.
C18_Witness ==
    /\ InLoop("r1")
    /\ last.op = "retry" /\ last.r = "r1"
    /\ AllPresent
    /\ \A id \in Ids : redis[id].ttl = NoExpiration

\* No operation is in the middle: no call between its store commands.
Quiescent == \A r \in Requests : pc[r] \in {"idle", "ready", "raised", "done"}

\* C19 as stated: with a default timeout T > 0 and no operation in the
\* middle, a key of the store has no expiration exactly when the payload
\* stored under it holds the marker 'on', and a key without the marker has
\* a time to live of at most T.
C19_Original ==
    (timeout > 0 /\ Quiescent) =>
        \A key \in Present(redis) :
            /\ redis[key].ttl = NoExpiration <=> Unpack(redis[key].val).obj["on"] # Missing
            /\ Unpack(redis[key].val).obj["on"] = Missing =>
                  (redis[key].ttl >= 1 /\ redis[key].ttl <= timeout)

\* C20 as stated: the payload a session has when its load returns is the
\* decoding of the bytes stored under its own id, whatever other loads fed
\* to the unpacker of the module and however their feed and unpack steps
\* fell between its own; and the load returns.
C20_Original ==
    last.op \in {"factory_existing", "factory_new"} =>
        /\ ~last.raised
        /\ LastKey.present
        /\ LastSession.managed_dict = Unpack(LastKey.val).obj

====
